---- MODULE Spec2Model ----
(***************************************************************************)
(* A model of ComfyUI-VideoNoiseWarp's nodes.py: the sequence resampler    *)
(* (get_downtemp_noise and its helpers resize_list, downsamp_mean,         *)
(* normalized_noises, split_into_n_sublists) as operators, and the node's  *)
(* GetWarpedNoiseFromVideo.warp as a step-by-step state machine.           *)
(*                                                                         *)
(* Two specifications share the module:                                    *)
(*   SpecFn  calls the resampler's functions on inputs drawn from bounded  *)
(*           sets and records what each call returns or raises;            *)
(*   Spec    runs warp from its first statement to its return statement    *)
(*           or to the statement that raises.                              *)
(*                                                                         *)
(* Tensors are modelled by what the claims are about: a sequence along the *)
(* leading (temporal) axis whose elements are tagged with where they come  *)
(* from, and a shape, the list of the axes with their sizes.  The numeric  *)
(* content of a noise field is not modelled.                               *)
(***************************************************************************)
EXTENDS Integers, Sequences, FiniteSets, TLC

\* ------------------------------------------------------------- bounds
\* Longest source sequence handed to the resampler's functions.
MaxLen == 6
\* Largest target length (interp_to / length / n) handed to them.
MaxTarget == 4
\* Largest number of video frames handed to warp.
MaxFrames == 5
\* Largest target_latent_count handed to warp.
MaxLatents == 5

\* ------------------------------------------------------------- values
\* What a call gives back: a value, or the exception it raises.
Ok(v) == [err |-> "none", val |-> v]

Raise(e) == [err |-> e, val |-> <<>>]

\* An element of a noise sequence: kind says how it was made, of lists the
\* (0-based) source positions it was made from.
\*   snap   the source element at that position, as it is
\*   mean   sum(u) / len(u) of the source elements at those positions
\*   norm   such a mean divided by its std
\*   randn  a fresh sample, drawn for the output position in of
Elem(kind, of) == [kind |-> kind, of |-> of]

\* A source sequence of length L, element i tagged with its position i.
Tagged(L) == [k \in 1..L |-> Elem("snap", <<k - 1>>)]

\* ------------------------------------------------------------- Python
\* round(p / q) for integers p >= 0, q > 0: Python 3 rounds a tie to the
\* even neighbour.  The code rounds the double product i * step, step the
\* double quotient (len(array) - 1) / (length - 1); that product is the
\* exact rational (and so this operator the code's result) for every
\* len(array) and length up to 22, far above MaxLen and MaxTarget.
PyRoundTrunc(p, q) == p \div q

PyRound(p, q) ==
    LET f == p \div q
        r == p % q
    IN  IF 2 * r < q THEN f
        ELSE IF 2 * r > q THEN f + 1
        ELSE IF f % 2 = 0 THEN f ELSE f + 1

\* l[a:b] for 0 <= a, 0 <= b: the elements at positions a .. b-1, cut to
\* the sequence's end; empty when a >= b.
Min(a, b) == IF a < b THEN a ELSE b

Slice(l, a, b) == SubSeq(l, Min(a, Len(l)) + 1, Min(b, Len(l)))

\* ------------------------------------------------------------- helpers
\* indices = [int(i * L / n) for i in range(n + 1)], 1-based here:
\* SplitIndices(L, n)[i + 1] is the code's indices[i].  i * L / n is a
\* double; for these sizes int() of it is the floor of the exact quotient.
SplitIndicesRounded(L, n) == [k \in 1..(n + 1) |-> PyRound((k - 1) * L, n)]

SplitIndicesEqualBlocks(L, n) ==
    [k \in 1..(n + 1) |-> IF k = n + 1 THEN L ELSE (k - 1) * (L \div n)]

SplitIndices(L, n) == [k \in 1..(n + 1) |-> ((k - 1) * L) \div n]

\* split_into_n_sublists(l, n) for a list or tensor l (the str branch of
\* lines 54-55 is taken for no value the node passes).
split_into_n_sublists(l, n) ==
    IF n <= 0 THEN Raise("ValueError")
    ELSE LET indices == SplitIndices(Len(l), n)
         IN  Ok([k \in 1..n |-> Slice(l, indices[k], indices[k + 1])])

\* resize_list(array, length): step is the rational StepNum / StepDen.
resize_list(array, length) ==
    IF length < 0 THEN Raise("AssertionError")
    ELSE LET strided == Len(array) > 1 /\ length > 1
             StepNum == IF strided THEN Len(array) - 1 ELSE 0
             StepDen == IF strided THEN length - 1 ELSE 1
             indices == [k \in 1..length |-> PyRound((k - 1) * StepNum, StepDen)]
         IN  IF \E k \in 1..length : indices[k] >= Len(array)
             THEN Raise("IndexError")
             ELSE Ok([k \in 1..length |-> array[indices[k] + 1]])

\* The positions a block of source elements covers.
Positions(u) == [k \in 1..Len(u) |-> u[k].of[1]]

\* downsamp_mean(x, l): sum(u) / len(u) of an empty block is the integer
\* division 0 / 0.
downsamp_mean(x, l) ==
    LET blocks == split_into_n_sublists(x, l)
    IN  IF blocks.err # "none" THEN blocks
        ELSE IF \E k \in 1..l : Len(blocks.val[k]) = 0
        THEN Raise("ZeroDivisionError")
        ELSE Ok([k \in 1..l |-> Elem("mean", Positions(blocks.val[k]))])

\* normalized_noises(noises): each element divided by its std.
normalized_noises(noises) == [k \in 1..Len(noises) |-> Elem("norm", noises[k].of)]

\* torch.randn_like(t): fresh samples in t's shape.
randn_like(t) == [k \in 1..Len(t) |-> Elem("randn", <<k - 1>>)]

get_downtemp_noise_resizing(noise, noise_downtemp_interp, interp_to) ==
    resize_list(noise, interp_to)

get_downtemp_noise(noise, noise_downtemp_interp, interp_to) ==
    IF noise_downtemp_interp = "nearest" THEN resize_list(noise, interp_to)
    ELSE IF noise_downtemp_interp = "blend" THEN downsamp_mean(noise, interp_to)
    ELSE IF noise_downtemp_interp = "blend_norm" THEN
        LET m == downsamp_mean(noise, interp_to)
        IN  IF m.err # "none" THEN m ELSE Ok(normalized_noises(m.val))
    ELSE IF noise_downtemp_interp = "randn" THEN
        LET r == resize_list(noise, interp_to)
        IN  IF r.err # "none" THEN r ELSE Ok(randn_like(r.val))
    ELSE Ok(noise)

\* The policy names the node offers, and one it does not.
NodePolicies == {"nearest", "blend", "blend_norm", "randn", "disabled"}

Policies == NodePolicies \cup {"bicubic"}

\* ------------------------------------------------------------- shapes
\* A tensor's shape: its axes in order, each with its name and its size.
Axis(a, n) == [ax |-> a, n |-> n]

\* t.permute(perm), perm 0-based as in the code.
Permute(shape, perm) == [k \in 1..Len(perm) |-> shape[perm[k] + 1]]

\* t.squeeze(d): axis d goes when its size is 1, and stays otherwise.
Squeeze(shape, d) ==
    IF d < Len(shape) /\ shape[d + 1].n = 1
    THEN SubSeq(shape, 1, d) \o SubSeq(shape, d + 2, Len(shape))
    ELSE shape

\* t[None]: a new leading axis of size 1.
Unsqueeze0(shape) == <<Axis("B", 1)>> \o shape

\* np.stack of n arrays of one shape: a new leading axis of size n.
Stack(n, shape) == <<Axis("T", n)>> \o shape

\* downscale_factor = round(resize_frames * resize_flow) * 8
DownscaleFactor == 8

\* downscale_noise(noise): F.interpolate(noise, scale_factor = 1 /
\* downscale_factor, mode = 'area') gives each of the two spatial axes
\* floor(size / downscale_factor) entries.
downscale_noise_identity(shape) == shape

downscale_noise(shape) ==
    [k \in 1..Len(shape) |->
        IF k > Len(shape) - 2
        THEN Axis(shape[k].ax, shape[k].n \div DownscaleFactor)
        ELSE shape[k]]

\* The shape of NoiseWarper(c, h, w).noise, as warp uses it: a 4-axis
\* batch of one (F.interpolate in 'area' mode over two spatial axes, the
\* "T, B, C, H, W" of the stacked snapshots, the squeeze(1) that follows).
WarperNoiseShape(c, h, w) ==
    <<Axis("B", 1), Axis("C", c), Axis("H", h), Axis("W", w)>>

\* mix_new_noise(noise, degradation): sqrt(1 - d) * noise + sqrt(d) * fresh,
\* elementwise; at d = 0 the noise itself.
mix_new_noise(elems, degradation) ==
    IF degradation = 0 THEN elems
    ELSE [k \in 1..Len(elems) |-> Elem("mixed", elems[k].of)]

\* Lines 156-159: the axes of the returned tensor.
Layout(shape, latent_shape) ==
    IF latent_shape = "BTCHW" THEN Permute(shape, <<0, 2, 1, 3, 4>>)
    ELSE IF latent_shape = "BCHW" THEN Squeeze(shape, 0)
    ELSE shape

\* ------------------------------------------------------------- state
VARIABLES
    call,   \* SpecFn: the call made last, [fn, L, n, policy]
    ret,    \* SpecFn: what it returned or raised
    images,                 \* [F, H, W]: frames, height, width of the input
    noise_channels,
    noise_downtemp_interp,
    target_latent_count,
    degradation,            \* in hundredths: 0 .. 100
    latent_shape,
    pc,                     \* the statement warp is at
    err,                    \* the exception warp raised, "none" if none
    raft_model,             \* "none" until RaftOpticalFlow is constructed
    warper,                 \* [built, steps]: steps lists the flows consumed
    drawn,                  \* how many times fresh noise was sampled
    prev_video_frame,       \* index of the previous frame, -1 before line 112
    video_frame,            \* index of the loop's current frame
    flow,                   \* the (dx, dy) of the current iteration
    noise,                  \* the snapshot captured last
    numpy_noises,
    numpy_flows,
    pbar,                   \* progress updates sent
    vis,                    \* shape of vis_tensor_noises
    samples                 \* [shape, elems] of the returned noise tensor

inputs == <<images, noise_channels, noise_downtemp_interp, target_latent_count,
            degradation, latent_shape>>

loopvars == <<prev_video_frame, video_frame, flow, noise, numpy_noises, numpy_flows, pbar>>

fnvars == <<call, ret>>

vars == <<call, ret, images, noise_channels, noise_downtemp_interp,
          target_latent_count, degradation, latent_shape, pc, err, raft_model,
          warper, drawn, prev_video_frame, video_frame, flow, noise,
          numpy_noises, numpy_flows, pbar, vis, samples>>

NoCall == [fn |-> "none", L |-> 0, n |-> 0, policy |-> ""]

NoFlow == [src |-> -1, dst |-> -1]

NoTensor == [shape |-> <<>>, elems |-> <<>>]

FrameSizes == {<<64, 64>>, <<20, 8>>}

ChannelCounts == {1, 4}

Degradations == {0, 50}

LatentShapes == {"BTCHW", "BCTHW", "BCHW"}

\* warp before its first statement, on any input the node can hand it.
InitWarp ==
    /\ call = NoCall
    /\ ret = Ok(<<>>)
    /\ \E F \in 0..MaxFrames, hw \in FrameSizes :
            images = [F |-> F, H |-> hw[1], W |-> hw[2]]
    /\ noise_channels \in ChannelCounts
    /\ noise_downtemp_interp \in NodePolicies
    /\ target_latent_count \in 1..MaxLatents
    /\ degradation \in Degradations
    /\ latent_shape \in LatentShapes
    /\ pc = "seed"
    /\ err = "none"
    /\ raft_model = "none"
    /\ warper = [built |-> FALSE, steps |-> <<>>]
    /\ drawn = 0
    /\ prev_video_frame = -1
    /\ video_frame = -1
    /\ flow = NoFlow
    /\ noise = Elem("none", <<>>)
    /\ numpy_noises = <<>>
    /\ numpy_flows = <<>>
    /\ pbar = 0
    /\ vis = <<>>
    /\ samples = NoTensor

\* The pipeline's variables while the resampler's functions are called alone.
InitFn ==
    /\ call = NoCall
    /\ ret = Ok(<<>>)
    /\ images = [F |-> 0, H |-> 0, W |-> 0]
    /\ noise_channels = 1
    /\ noise_downtemp_interp = "disabled"
    /\ target_latent_count = 1
    /\ degradation = 0
    /\ latent_shape = "BCTHW"
    /\ pc = "idle"
    /\ err = "none"
    /\ raft_model = "none"
    /\ warper = [built |-> FALSE, steps |-> <<>>]
    /\ drawn = 0
    /\ prev_video_frame = -1
    /\ video_frame = -1
    /\ flow = NoFlow
    /\ noise = Elem("none", <<>>)
    /\ numpy_noises = <<>>
    /\ numpy_flows = <<>>
    /\ pbar = 0
    /\ vis = <<>>
    /\ samples = NoTensor

pipevars == <<images, noise_channels, noise_downtemp_interp, target_latent_count,
              degradation, latent_shape, pc, err, raft_model, warper, drawn,
              prev_video_frame, video_frame, flow, noise, numpy_noises,
              numpy_flows, pbar, vis, samples>>

CallSplit ==
    \E L \in 0..MaxLen, n \in (-1)..MaxTarget :
        /\ call' = [fn |-> "split_into_n_sublists", L |-> L, n |-> n, policy |-> ""]
        /\ ret' = split_into_n_sublists(Tagged(L), n)
        /\ UNCHANGED pipevars

CallResize ==
    \E L \in 0..MaxLen, n \in (-1)..MaxTarget :
        /\ call' = [fn |-> "resize_list", L |-> L, n |-> n, policy |-> ""]
        /\ ret' = resize_list(Tagged(L), n)
        /\ UNCHANGED pipevars

CallDowntemp ==
    \E L \in 0..MaxLen, n \in (-1)..MaxTarget, p \in Policies :
        /\ call' = [fn |-> "get_downtemp_noise", L |-> L, n |-> n, policy |-> p]
        /\ ret' = get_downtemp_noise(Tagged(L), p, n)
        /\ UNCHANGED pipevars

NextFn == CallSplit \/ CallResize \/ CallDowntemp

SpecFn == InitFn /\ [][NextFn]_vars

\* ------------------------------------------------------------- warp
\* Lines 81-86: the device, the seed, the downscale factor.
Seed ==
    /\ pc = "seed"
    /\ pc' = "raft"
    /\ UNCHANGED <<inputs, fnvars, loopvars, err, raft_model, warper, drawn, vis, samples>>

\* Line 88: raft_model = RaftOpticalFlow(device, "large")
BuildRaft ==
    /\ pc = "raft"
    /\ raft_model' = "built"
    /\ pc' = "warper"
    /\ UNCHANGED <<inputs, fnvars, loopvars, err, warper, drawn, vis, samples>>

\* Lines 95-110: the frames' shape, then warper = NoiseWarper(...), whose
\* initial field is one draw of fresh noise.
BuildWarper ==
    /\ pc = "warper"
    /\ warper' = [built |-> TRUE, steps |-> <<>>]
    /\ drawn' = drawn + 1
    /\ pc' = "first"
    /\ UNCHANGED <<inputs, fnvars, loopvars, err, raft_model, vis, samples>>

\* Line 112: prev_video_frame = video_frames[0]
FirstFrame ==
    /\ pc = "first"
    /\ IF images.F = 0
       THEN /\ err' = "IndexError"
            /\ pc' = "raised"
            /\ UNCHANGED prev_video_frame
       ELSE /\ prev_video_frame' = 0
            /\ pc' = "snapshot"
            /\ UNCHANGED err
    /\ UNCHANGED <<inputs, fnvars, video_frame, flow, noise, numpy_noises,
                   numpy_flows, pbar, raft_model, warper, drawn, vis, samples>>

\* Lines 113-120: the warper's initial field is the first snapshot.
FirstSnapshot ==
    /\ pc = "snapshot"
    /\ noise' = Elem("snap", <<Len(warper.steps)>>)
    /\ numpy_noises' = <<noise'>>
    /\ numpy_flows' = <<>>
    /\ pbar' = 0
    /\ video_frame' = 0
    /\ pc' = "loop"
    /\ UNCHANGED <<inputs, fnvars, prev_video_frame, flow, err, raft_model,
                   warper, drawn, vis, samples>>

\* Lines 121-122: the next frame of video_frames[1:], and its flow from
\* the previous frame.
LoopRaft ==
    /\ pc = "loop"
    /\ video_frame + 1 < images.F
    /\ video_frame' = video_frame + 1
    /\ flow' = [src |-> prev_video_frame, dst |-> video_frame']
    /\ pc' = "advance"
    /\ UNCHANGED <<inputs, fnvars, prev_video_frame, noise, numpy_noises,
                   numpy_flows, pbar, err, raft_model, warper, drawn, vis, samples>>

\* Lines 123-124: noise = warper(dx, dy).noise; prev_video_frame = video_frame
LoopAdvanceKeepsPrev ==
    /\ pc = "advance"
    /\ warper' = [warper EXCEPT !.steps = Append(@, flow)]
    /\ drawn' = drawn + 1
    /\ pc' = "keep_flow"
    /\ UNCHANGED <<inputs, fnvars, prev_video_frame, video_frame, flow, noise,
                   numpy_noises, numpy_flows, pbar, err, raft_model, vis, samples>>

LoopAdvance ==
    /\ pc = "advance"
    /\ warper' = [warper EXCEPT !.steps = Append(@, flow)]
    /\ drawn' = drawn + 1
    /\ prev_video_frame' = video_frame
    /\ pc' = "keep_flow"
    /\ UNCHANGED <<inputs, fnvars, video_frame, flow, noise, numpy_noises,
                   numpy_flows, pbar, err, raft_model, vis, samples>>

\* Lines 126-132: numpy_flows.append(numpy_flow)
LoopKeepFlow ==
    /\ pc = "keep_flow"
    /\ numpy_flows' = Append(numpy_flows, flow)
    /\ pc' = "keep_noise"
    /\ UNCHANGED <<inputs, fnvars, prev_video_frame, video_frame, flow, noise,
                   numpy_noises, pbar, err, raft_model, warper, drawn, vis, samples>>

\* Lines 133-136: the advanced field is the next snapshot.
LoopKeepNoise ==
    /\ pc = "keep_noise"
    /\ noise' = Elem("snap", <<Len(warper.steps)>>)
    /\ numpy_noises' = Append(numpy_noises, noise')
    /\ pbar' = pbar + 1
    /\ pc' = "loop"
    /\ UNCHANGED <<inputs, fnvars, prev_video_frame, video_frame, flow,
                   numpy_flows, err, raft_model, warper, drawn, vis, samples>>

\* Line 138, once video_frames[1:] is exhausted: np.stack(numpy_noises)
StackNoises ==
    /\ pc = "loop"
    /\ ~(video_frame + 1 < images.F)
    /\ pc' = "stack_flows"
    /\ UNCHANGED <<inputs, fnvars, loopvars, err, raft_model, warper, drawn, vis, samples>>

\* Line 139: np.stack(numpy_flows), which needs at least one array.
StackFlows ==
    /\ pc = "stack_flows"
    /\ IF Len(numpy_flows) = 0
       THEN /\ err' = "ValueError"
            /\ pc' = "raised"
       ELSE /\ pc' = "vis"
            /\ UNCHANGED err
    /\ UNCHANGED <<inputs, fnvars, loopvars, raft_model, warper, drawn, vis, samples>>

\* The shape of one snapshot, and of the stacked snapshots (T, B, C, H, W).
SnapshotShape == downscale_noise(WarperNoiseShape(noise_channels, images.H, images.W))

StackedShape == Stack(Len(numpy_noises), SnapshotShape)

\* Lines 142-144: the first (up to) 3 channels, squeezed and permuted to
\* (T, H, W, C).
Visualize ==
    /\ pc = "vis"
    /\ vis' = Permute(Squeeze([StackedShape EXCEPT ![3] =
                    Axis("C", Min(noise_channels, 3))], 1), <<0, 2, 3, 1>>)
    /\ pc' = "resample"
    /\ UNCHANGED <<inputs, fnvars, loopvars, err, raft_model, warper, drawn, samples>>

\* Lines 146-153: noise_tensor, get_downtemp_noise(...), then [None].
Resample ==
    /\ pc = "resample"
    /\ LET noise_tensor == Squeeze(StackedShape, 1)
           r == get_downtemp_noise(numpy_noises, noise_downtemp_interp,
                                   target_latent_count)
       IN  IF r.err # "none"
           THEN /\ err' = r.err
                /\ pc' = "raised"
                /\ UNCHANGED <<samples, drawn>>
           ELSE /\ samples' = [shape |-> Unsqueeze0(<<Axis("T", Len(r.val))>>
                                            \o Tail(noise_tensor)),
                               elems |-> r.val]
                /\ drawn' = IF noise_downtemp_interp = "randn" THEN drawn + 1 ELSE drawn
                /\ pc' = "mix"
                /\ UNCHANGED err
    /\ UNCHANGED <<inputs, fnvars, loopvars, raft_model, warper, vis>>

\* Line 154: downtemp_noise_tensor = mix_new_noise(downtemp_noise_tensor, degradation)
Mix ==
    /\ pc = "mix"
    /\ samples' = [samples EXCEPT !.elems = mix_new_noise(@, degradation)]
    /\ drawn' = drawn + 1
    /\ pc' = "layout"
    /\ UNCHANGED <<inputs, fnvars, loopvars, err, raft_model, warper, vis>>

\* Lines 156-161: the requested layout, and the return.
Return ==
    /\ pc = "layout"
    /\ samples' = [samples EXCEPT !.shape = Layout(@, latent_shape)]
    /\ pc' = "done"
    /\ UNCHANGED <<inputs, fnvars, loopvars, err, raft_model, warper, drawn, vis>>

Next ==
    \/ Seed
    \/ BuildRaft
    \/ BuildWarper
    \/ FirstFrame
    \/ FirstSnapshot
    \/ LoopRaft
    \/ LoopAdvance
    \/ LoopKeepFlow
    \/ LoopKeepNoise
    \/ StackNoises
    \/ StackFlows
    \/ Visualize
    \/ Resample
    \/ Mix
    \/ Return

Spec == InitWarp /\ [][Next]_vars

\* ------------------------------------------------------------- claims
\* Helpers of the statements below.
RECURSIVE Flatten(_)
Flatten(blocks) ==
    IF Len(blocks) = 0 THEN <<>> ELSE Head(blocks) \o Flatten(Tail(blocks))

RECURSIVE CumLen(_, _)
CumLen(blocks, k) == IF k = 0 THEN 0 ELSE CumLen(blocks, k - 1) + Len(blocks[k])

AbsDiff(a, b) == IF a < b THEN b - a ELSE a - b

HasAxis(shape, a, n) == \E k \in 1..Len(shape) : shape[k] = Axis(a, n)

AxisNames(shape) == [k \in 1..Len(shape) |-> shape[k].ax]

ConsecutiveFlows(n) == [k \in 1..n |-> [src |-> k - 1, dst |-> k]]

IsDowntemp(policies) == call.fn = "get_downtemp_noise" /\ call.policy \in policies

\* C1: for every policy the node offers (nearest, blend, blend_norm, randn,
\* disabled), every source length L >= 1 and every target T >= 1,
\* get_downtemp_noise returns a sequence of exactly T elements.
C1_ExactlyTargetLength ==
    (IsDowntemp(NodePolicies) /\ call.L >= 1 /\ call.n >= 1)
        => (ret.err = "none" /\ Len(ret.val) = call.n)

\* C2: for every source length L >= 0 and block count n >= 1,
\* split_into_n_sublists returns exactly n blocks, block k running from
\* boundary floor(k*L/n) to boundary floor((k+1)*L/n); every source position
\* lies in exactly one block and the blocks, concatenated, are the source.
C2_SplitPartitions ==
    (call.fn = "split_into_n_sublists" /\ call.n >= 1)
        => /\ ret.err = "none"
           /\ Len(ret.val) = call.n
           /\ \A k \in 0..call.n : CumLen(ret.val, k) = (k * call.L) \div call.n
           /\ Flatten(ret.val) = Tagged(call.L)
           /\ \A p \in 0..(call.L - 1) :
                Cardinality({kj \in (1..call.n) \X (1..call.L) :
                    /\ kj[2] <= Len(ret.val[kj[1]])
                    /\ ret.val[kj[1]][kj[2]].of = <<p>>}) = 1

\* A split of 5 elements into 3 blocks, of 1, 2 and 2 elements.
C2_Witness ==
    /\ call.fn = "split_into_n_sublists" /\ call.L = 5 /\ call.n = 3
    /\ ret.err = "none"
    /\ [k \in 1..3 |-> Positions(ret.val[k])] = << <<0>>, <<1, 2>>, <<3, 4>> >>

\* C3: under the nearest policy, for L >= 1 and T >= 1, resize_list raises
\* nothing and output element i (0 <= i < T) is the source element at a
\* position r in 0..L-1 that is i*(L-1)/(T-1) rounded to a nearest integer
\* (|r - i*(L-1)/(T-1)| <= 1/2) when L > 1 and T > 1, and at position 0
\* when L = 1 or T = 1.
C3_NearestGathersRounded ==
    (/\ call.fn = "resize_list" \/ IsDowntemp({"nearest"})
     /\ call.L >= 1
     /\ call.n >= 1)
        => /\ ret.err = "none"
           /\ Len(ret.val) = call.n
           /\ \A k \in 1..call.n :
                /\ ret.val[k].kind = "snap"
                /\ Len(ret.val[k].of) = 1
                /\ ret.val[k].of[1] \in 0..(call.L - 1)
                /\ IF call.L > 1 /\ call.n > 1
                   THEN AbsDiff(2 * ret.val[k].of[1] * (call.n - 1),
                                2 * (k - 1) * (call.L - 1)) <= call.n - 1
                   ELSE ret.val[k].of[1] = 0

\* 6 elements resized to 4: positions 0, round(5/3), round(10/3), 5.
C3_Witness ==
    /\ IsDowntemp({"nearest"}) /\ call.L = 6 /\ call.n = 4
    /\ ret.err = "none"
    /\ Positions(ret.val) = <<0, 2, 3, 5>>

\* C7, as claimed: in the blend policy's partition of L elements into T
\* blocks (L >= T >= 1) every block but the last has floor(L/T) elements
\* and the last has the remaining L - (T-1)*floor(L/T).
C7_RemainderInLastBlock ==
    (IsDowntemp({"blend"}) /\ call.n >= 1 /\ call.L >= call.n)
        => /\ ret.err = "none"
           /\ Len(ret.val) = call.n
           /\ \A k \in 1..(call.n - 1) : Len(ret.val[k].of) = call.L \div call.n
           /\ Len(ret.val[call.n].of)
                = call.L - (call.n - 1) * (call.L \div call.n)

\* C7, amended: in that partition every block has floor(L/T) or
\* floor(L/T) + 1 elements, exactly L mod T blocks have the larger size,
\* and the last block has ceil(L/T) elements: it is never smaller than
\* another block, and the remainder is spread over the blocks one each.
C7_RemainderSpread ==
    (IsDowntemp({"blend"}) /\ call.n >= 1 /\ call.L >= call.n)
        => /\ ret.err = "none"
           /\ Len(ret.val) = call.n
           /\ \A k \in 1..call.n :
                Len(ret.val[k].of) \in {call.L \div call.n, call.L \div call.n + 1}
           /\ Cardinality({k \in 1..call.n :
                Len(ret.val[k].of) = call.L \div call.n + 1}) = call.L % call.n
           /\ Len(ret.val[call.n].of) = (call.L + call.n - 1) \div call.n

\* blend of 5 elements into 3: the means of 1, 2 and 2 elements.
C7_Witness ==
    /\ IsDowntemp({"blend"}) /\ call.L = 5 /\ call.n = 3
    /\ ret.err = "none"
    /\ [k \in 1..3 |-> ret.val[k].of] = << <<0>>, <<1, 2>>, <<3, 4>> >>

\* C8: for a policy name other than nearest, blend, blend_norm and randn
\* (disabled, and any unknown name) get_downtemp_noise raises nothing and
\* returns the source sequence itself, whatever the target length.
C8_PassthroughUnchanged ==
    (call.fn = "get_downtemp_noise"
        /\ call.policy \notin {"nearest", "blend", "blend_norm", "randn"})
        => ret = Ok(Tagged(call.L))

\* An unknown name, a source of 3 and a target of 2: the 3 come back.
C8_Witness ==
    /\ call.fn = "get_downtemp_noise" /\ call.policy = "bicubic"
    /\ call.L = 3 /\ call.n = 2
    /\ ret.err = "none" /\ Positions(ret.val) = <<0, 1, 2>>

\* C4: a run of warp on exactly one frame, or with target_latent_count 1
\* (on at least one frame), never ends in an error, whatever the policy.
C4_DegenerateNeverFatal ==
    (images.F = 1 \/ (images.F >= 1 /\ target_latent_count = 1))
        => pc # "raised"

\* C5: the returned tensor's axes are (B, T, C, H, W) when BTCHW is asked
\* for and (B, C, T, H, W) when BCTHW is asked for.
C5_LayoutAsNamed ==
    pc = "done"
        => /\ latent_shape = "BTCHW"
                => AxisNames(samples.shape) = <<"B", "T", "C", "H", "W">>
           /\ latent_shape = "BCTHW"
                => AxisNames(samples.shape) = <<"B", "C", "T", "H", "W">>

\* The run the two statements of C6 are about: policy disabled,
\* degradation 0, returned.
C6_Case == pc = "done" /\ noise_downtemp_interp = "disabled" /\ degradation = 0

\* C6, as claimed: for F frames of H x W, noise_channels C, policy
\* disabled and degradation 0 the returned tensor has, in the layout's
\* order, the five axes batch 1, channel C, temporal F, height H, width W.
C6_FullResolutionShape ==
    C6_Case
        => /\ Len(samples.shape) = 5
           /\ HasAxis(samples.shape, "B", 1)
           /\ HasAxis(samples.shape, "C", noise_channels)
           /\ HasAxis(samples.shape, "T", images.F)
           /\ HasAxis(samples.shape, "H", images.H)
           /\ HasAxis(samples.shape, "W", images.W)

\* C6, amended: the spatial extent is floor(H/8) x floor(W/8); the tensor
\* has C channels and F temporal elements, and one batch element in the
\* two five-axis layouts, while the layout BCHW drops the batch axis.
C6_LatentResolutionShape ==
    C6_Case
        => /\ Len(samples.elems) = images.F
           /\ HasAxis(samples.shape, "C", noise_channels)
           /\ HasAxis(samples.shape, "T", images.F)
           /\ HasAxis(samples.shape, "H", images.H \div 8)
           /\ HasAxis(samples.shape, "W", images.W \div 8)
           /\ IF latent_shape = "BCHW"
              THEN Len(samples.shape) = 4
              ELSE Len(samples.shape) = 5 /\ HasAxis(samples.shape, "B", 1)

\* 5 frames of 64 x 64, 4 channels, 5 latents: 1, 4, 5, 8, 8 in some order.
C6_Witness ==
    /\ C6_Case
    /\ images = [F |-> 5, H |-> 64, W |-> 64]
    /\ noise_channels = 4 /\ target_latent_count = 5
    /\ latent_shape = "BCTHW"
    /\ {samples.shape[k].n : k \in 1..Len(samples.shape)} = {1, 4, 5, 8}

\* C9: a run of warp on zero frames ends in an error and returns nothing,
\* and when the error is raised the flow provider is not constructed, the
\* Noise Warper is not initialized and no noise has been drawn.
C9_EmptyFailsAtBoundary ==
    images.F = 0
        => /\ pc # "done"
           /\ pc = "raised"
                => (raft_model = "none" /\ ~warper.built /\ drawn = 0)

\* The statements after warp's loop.
AfterLoop == {"stack_flows", "vis", "resample", "mix", "layout", "done", "raised"}

\* C10: on F >= 2 frames the warper is advanced once per consecutive frame
\* pair (i-1, i), in increasing i; each flow is consumed by one advance and
\* retained once; at the head of every iteration there is one snapshot more
\* than retained flows, the first snapshot being the warper's field before
\* any advance; after the loop there are F snapshots in frame order and
\* F - 1 flows.
C10_LoopBookkeeping ==
    images.F >= 2
        => /\ pc = "loop"
                => /\ Len(numpy_noises) = Len(numpy_flows) + 1
                   /\ numpy_noises = Tagged(video_frame + 1)
                   /\ numpy_flows = ConsecutiveFlows(video_frame)
                   /\ warper.steps = numpy_flows
                   /\ pbar = video_frame
           /\ pc \in AfterLoop
                => /\ numpy_noises = Tagged(images.F)
                   /\ numpy_flows = ConsecutiveFlows(images.F - 1)
                   /\ warper.steps = numpy_flows

\* The loop over 4 frames has ended: 4 snapshots, 3 flows, 3 advances.
C10_Witness ==
    /\ images.F = 4
    /\ pc = "stack_flows"
    /\ Len(numpy_noises) = 4 /\ Len(numpy_flows) = 3 /\ Len(warper.steps) = 3

====
